---- MODULE Spec2Model ----
(***************************************************************************)
(* Recreate-strategy rollout of the deployment controller                  *)
(* (pkg/controller/deployment/recreate.go).                                *)
(*                                                                         *)
(* One reconciliation pass of rolloutRecreate is modelled as a sequence of *)
(* steps (one per store call of the pass), so that the replica set         *)
(* controller, which changes the observed replica counts, interleaves      *)
(* with it.  The collaborators that recreate.go calls but that live in     *)
(* other files of the controller (generation resolver, scaling executor,   *)
(* status synchronizer, cleanup) follow their contracts.                   *)
(***************************************************************************)
EXTENDS Integers, Sequences, FiniteSets, TLC

\* ---------------------------------------------------------------- bounds
MaxOld == 2              \* old replica sets in an initial state
MaxReplicas == 1         \* largest replica count in an initial state
ScenarioReplicas == 5    \* replica count of the one-old-set scenario
MaxRoutes == 2           \* routes on the router in an initial state

MaxRS == MaxOld + 1      \* replica set names: the old ones and the new one
RSIds == 1..MaxRS
NoLimit == 0 - 1         \* deployment.Spec.RevisionHistoryLimit == nil
NewTemplate == MaxRS     \* the template hash of the Deployment's pod template
NotCounted == 0 - 1      \* progress is not followed in this behaviour

\* ---------------------------------------------------------------- state
VARIABLES
    store,        \* the stored replica sets, by name
    deployment,   \* the Deployment: template, desired replicas, retention limit
    status,       \* the stored DeploymentStatus
    pc,           \* position of the running pass ("idle" between passes)
    newRS,        \* rolloutRecreate: newRS   (snapshot object or NilRS)
    oldRSs,       \* rolloutRecreate: oldRSs  (snapshot objects, newest first)
    allRSs,       \* rolloutRecreate: allRSs
    active,       \* scaleDownOldReplicaSetsForRecreate: its oldRSs argument
    idx,          \* scaleDownOldReplicaSetsForRecreate: position of the range loop
    scaled,       \* scaleDownOldReplicaSetsForRecreate: scaled
    result,       \* what the last pass returned: "none", "ok" or "err"
    calls,        \* the store calls of the current (or last) pass, in order
    progress,     \* passes so far that changed a desired count
    prev,         \* the last pass, for as long as the state is as it left it
    modified,     \* replica sets others wrote since the running pass listed them
    router,       \* the routes of the OpenStack router (routers.Router.Routes)
    routeCall,    \* the last call of the Routes interface and its outcome
    twin          \* the first of two runs from the same replica sets, to compare

vars == <<store, deployment, status, pc, newRS, oldRSs, allRSs, active, idx,
          scaled, result, calls, progress, prev, modified, router, routeCall, twin>>

NoRS == [exists |-> FALSE, tmpl |-> 0, desired |-> 0, observed |-> 0]
NilRS == [id |-> 0, desired |-> 0, observed |-> 0]
NoStatus == [replicas |-> 0 - 1, updatedReplicas |-> 0 - 1]
NoPrev == [stable |-> FALSE, clean |-> FALSE]

\* no second run is made
NoTwin == [phase |-> 0, start |-> << >>, status |-> NoStatus, rerun |-> NoStatus,
           calls |-> << >>, store |-> << >>, result |-> "none"]

NoRoute == [id |-> << >>, cidr |-> ""]
NoRouteCall == [op |-> "none", route |-> NoRoute, res |-> "ok", list |-> << >>,
                trip |-> 0, start |-> << >>]

Call(op, id, n, err) == [op |-> op, id |-> id, n |-> n, err |-> err]
ErrKinds == {"Conflict", "Transient"}

\* ------------------------------------------------- generation resolver
Obj(st, id) == [id |-> id, desired |-> st[id].desired, observed |-> st[id].observed]

IsNew(st, dep, id) == st[id].exists /\ st[id].tmpl = dep.tmpl
IsOld(st, dep, id) == st[id].exists /\ st[id].tmpl # dep.tmpl

\* the old replica sets named n or lower, newest (highest name) first
RECURSIVE OldFrom(_, _, _)
OldFrom(st, dep, n) ==
    IF n = 0 THEN << >>
    ELSE IF IsOld(st, dep, n) THEN <<Obj(st, n)>> \o OldFrom(st, dep, n - 1)
    ELSE OldFrom(st, dep, n - 1)

FindNew(st, dep) ==
    IF \E id \in RSIds : IsNew(st, dep, id)
    THEN Obj(st, CHOOSE id \in RSIds : IsNew(st, dep, id) /\
                     \A o \in RSIds : IsNew(st, dep, o) => id <= o)
    ELSE NilRS

\* the name a replica set created now gets: the first one after all existing ones
FreeId(st) ==
    CHOOSE id \in RSIds \cup {MaxRS + 1} :
        /\ \A o \in RSIds : st[o].exists => o < id
        /\ \A o \in RSIds : (o < id) => \E e \in RSIds : e >= o /\ st[e].exists

\* a freshly created replica set of the current template
CreatedRS(dep) == [exists |-> TRUE, tmpl |-> dep.tmpl, desired |-> 0, observed |-> 0]

\* getAllReplicaSetsAndSyncRevision(deployment, true): the store once the new
\* replica set exists
StoreWithNew(st, dep) ==
    IF FindNew(st, dep).id = 0 THEN [st EXCEPT ![FreeId(st)] = CreatedRS(dep)] ELSE st

\* controller.FilterActiveReplicaSets
FilterActiveReplicaSets(rss) ==
    SelectSeq(rss, LAMBDA r : r.desired > 0 \/ r.observed > 0)

\* ------------------------------------------------- status synchronizer
RECURSIVE SumObserved(_)
SumObserved(rss) ==
    IF rss = << >> THEN 0
    ELSE (IF Head(rss).id = 0 THEN 0 ELSE Head(rss).observed) + SumObserved(Tail(rss))

calculateStatus(all, new) ==
    [replicas |-> SumObserved(all),
     updatedReplicas |-> IF new.id = 0 THEN 0 ELSE new.observed]

\* ------------------------------------------------- scaling executor
\* scaleReplicaSetAndRecordEvent: nothing to do when the count is already n
NeedsScale(rs, n) == rs.desired # n
\* conditionalUpdate(object, expectedVersion): the update of rs goes through
\* only when rs is still stored and nobody wrote it since it was listed
Writable(st, mod, rs) == rs.id \in RSIds /\ st[rs.id].exists /\ rs.id \notin mod
\* the store after the update of rs to n replicas went through
ScaledStore(st, rs, n) == [st EXCEPT ![rs.id].desired = n]

\* scaleReplicaSetAndRecordEvent(rs, n, deployment) when its write goes
\* through: didScale, the replica set it returns, the store and the number of
\* events it emitted
scaleReplicaSetAndRecordEvent(st, rs, n) ==
    IF NeedsScale(rs, n)
    THEN [didScale |-> TRUE, rs |-> [rs EXCEPT !.desired = n],
          store |-> ScaledStore(st, rs, n), events |-> 1]
    ELSE [didScale |-> FALSE, rs |-> rs, store |-> st, events |-> 0]

\* ------------------------------------------------- per-pass bookkeeping
IsScaleOld(c) == c.op = "scaleOld"
IsScaleNew(c) == c.op = "scaleNew"
IsScale(c) == IsScaleOld(c) \/ IsScaleNew(c)
IsFail(c) == c.err # ""
IsCreate(c) == c.op = "create"
IsDelete(c) == c.op = "delete"
IsCleanup(c) == c.op = "cleanup"
IsStatus(c) == c.op \in {"status", "statusFail"}
IsMutating(c) == c.op \in {"scaleOld", "scaleOldFail", "scaleNew", "scaleNewFail",
                           "create", "createFail", "delete", "deleteFail"}
Has(log, P(_)) == \E k \in 1..Len(log) : P(log[k])
Last(log) == log[Len(log)]

\* the observed counts are still the ones the pass listed
SnapshotFresh ==
    \A k \in 1..Len(allRSs) :
        (allRSs[k].id # 0 /\ store[allRSs[k].id].exists) =>
            store[allRSs[k].id].observed = allRSs[k].observed

\* the pass returns res after the calls in log; its locals are gone
Return(res, log) ==
    /\ pc' = "idle"
    /\ result' = res
    /\ calls' = log
    /\ progress' = IF progress # NotCounted /\ Has(log, IsScale)
                   THEN progress + 1 ELSE progress
    /\ prev' = IF Has(log, IsCleanup) /\ SnapshotFresh
               THEN [stable |-> TRUE, clean |-> ~Has(log, IsFail)]
               ELSE NoPrev
    /\ newRS' = NilRS
    /\ oldRSs' = << >>
    /\ allRSs' = << >>
    /\ active' = << >>
    /\ idx' = 1
    /\ scaled' = FALSE
    /\ modified' = {}

\* the error of a step is dropped and the pass goes on with the next step
IgnoreError(log) ==
    /\ pc' = "ensureNew"
    /\ calls' = log
    /\ UNCHANGED <<modified, newRS, oldRSs, allRSs, active, idx, scaled, result, progress, prev>>

\* lines 28-30, 35-37, 47-49 and 55-57: an error of a step ends the pass
AbortOnError(log) == Return("err", log)

\* ------------------------------------------------- rolloutRecreate
\* line 27: resolve the generations, creating nothing
BeginPassOk ==
    /\ pc = "idle"
    /\ newRS' = FindNew(store, deployment)
    /\ oldRSs' = OldFrom(store, deployment, MaxRS)
    /\ allRSs' = Append(oldRSs', newRS')
    /\ active' = FilterActiveReplicaSets(oldRSs')
    /\ idx' = 1
    /\ scaled' = FALSE
    /\ pc' = "scaleDown"
    /\ result' = "none"
    /\ calls' = << >>
    /\ UNCHANGED <<store, deployment, router, routeCall, twin, modified, status, progress, prev>>

\* lines 28-30: the resolve failed
BeginPassFail ==
    /\ pc = "idle"
    /\ \E k \in ErrKinds : AbortOnError(<<Call("listFail", 0, 0, k)>>)
    /\ UNCHANGED <<store, deployment, router, routeCall, twin, status>>

\* line 74 with the test off by one: a set with one replica is left alone too
ScalingNotRequiredOffByOne(rs) == rs.desired <= 1

\* line 74: an old replica set that is at zero already is left alone
ScalingNotRequired(rs) == rs.desired = 0

\* scaleDownOldReplicaSetsForRecreate: one iteration of the range loop
ScaleDownOldOk ==
    /\ pc = "scaleDown"
    /\ idx <= Len(active)
    /\ LET rs == active[idx] IN
       \/ /\ ScalingNotRequired(rs)
          /\ UNCHANGED <<store, scaled, calls>>
       \/ /\ ~ScalingNotRequired(rs)
          /\ NeedsScale(rs, 0)
          /\ Writable(store, modified, rs)
          /\ store' = ScaledStore(store, rs, 0)
          /\ scaled' = TRUE
          /\ calls' = Append(calls, Call("scaleOld", rs.id, 0, ""))
    /\ idx' = idx + 1
    /\ UNCHANGED <<deployment, router, routeCall, twin, modified, status, pc, newRS,
                   oldRSs, allRSs, active,
                   result, progress, prev>>

\* lines 78-80 and 35-37: the scale of an old replica set failed
ScaleDownOldFail ==
    /\ pc = "scaleDown"
    /\ idx <= Len(active)
    /\ ~ScalingNotRequired(active[idx])
    /\ NeedsScale(active[idx], 0)
    /\ \E k \in ErrKinds :
          AbortOnError(Append(calls, Call("scaleOldFail", active[idx].id, 0, k)))
    /\ UNCHANGED <<store, deployment, router, routeCall, twin, status>>

\* lines 77-80 and 35-37: the old replica set to scale is gone from the store;
\* the executor surfaces NotFound and the loop returns it like any other error
ScaleDownOldNotFound ==
    /\ pc = "scaleDown"
    /\ idx <= Len(active)
    /\ ~ScalingNotRequired(active[idx])
    /\ NeedsScale(active[idx], 0)
    /\ ~store[active[idx].id].exists
    /\ AbortOnError(Append(calls, Call("scaleOldFail", active[idx].id, 0, "NotFound")))
    /\ UNCHANGED <<store, deployment, router, routeCall, twin, status>>

\* lines 38-41 left out: the pass goes on although it scaled old sets down
AfterScaleDownNoBarrier(scaledDown) == "ensureNew"

\* the pc the pass continues at once the old replica sets are dealt with
AfterScaleDown(scaledDown) == IF scaledDown THEN "status" ELSE "ensureNew"

\* lines 34-41: the loop is over; stop here when something was scaled down
ScaleDownDone ==
    /\ pc = "scaleDown"
    /\ idx > Len(active)
    /\ pc' = AfterScaleDown(scaled)
    /\ UNCHANGED <<store, deployment, router, routeCall, twin, modified, status, newRS,
                   oldRSs, allRSs, active,
                   idx, scaled, result, calls, progress, prev>>

\* line 46 with the result for newRS thrown away
ResolvedNewStale(first, relisted) == first

\* line 46: newRS is the one the creating resolve returned
ResolvedNew(first, relisted) == relisted

\* lines 45-51: resolve again, this time creating the new replica set
EnsureNewOk ==
    /\ pc = "ensureNew"
    /\ \/ /\ newRS.id # 0
          /\ UNCHANGED <<store, newRS, oldRSs, allRSs, calls, modified>>
       \/ /\ newRS.id = 0
          /\ FreeId(store) \in RSIds
          /\ store' = StoreWithNew(store, deployment)
          /\ newRS' = ResolvedNew(newRS, FindNew(store', deployment))
          /\ oldRSs' = OldFrom(store', deployment, MaxRS)
          /\ allRSs' = Append(oldRSs', newRS')
          /\ calls' = Append(calls, Call("create", FindNew(store', deployment).id, 0, ""))
          /\ modified' = {}
    /\ pc' = "scaleUp"
    /\ UNCHANGED <<deployment, router, routeCall, twin, status, active, idx, scaled,
                   result, progress, prev>>

\* lines 47-49: the resolve that creates failed
EnsureNewFail ==
    /\ pc = "ensureNew"
    /\ newRS.id = 0
    /\ \E k \in ErrKinds : AbortOnError(Append(calls, Call("createFail", 0, 0, k)))
    /\ UNCHANGED <<store, deployment, router, routeCall, twin, status>>

\* line 90 with the count left at zero
ScaleUpTargetZero(dep) == 0

\* line 90 with the scale-up left out when the stored status reports the
\* updated replicas at the Deployment's count already
ScaleUpTargetByStatus(dep) ==
    IF status.updatedReplicas = dep.replicas THEN newRS.desired ELSE dep.replicas

\* line 90 with a count of at least one
ScaleUpTargetMinOne(dep) == IF dep.replicas = 0 THEN 1 ELSE dep.replicas

\* line 90: the count the new replica set is scaled to
ScaleUpTarget(dep) == dep.replicas

\* lines 63-66 left out: the pass ends with the status write of line 60
AfterScaleUpNoCleanup(scaledUp) == "status"

\* lines 58-61 left out: the pass goes on to cleanup although it scaled up
AfterScaleUpNoBarrier(scaledUp) == "cleanup"

\* the pc the pass continues at after the scale-up step
AfterScaleUp(scaledUp) == IF scaledUp THEN "status" ELSE "cleanup"

\* scaleUpNewReplicaSetForRecreate and lines 54-61
ScaleUpNewOk ==
    /\ pc = "scaleUp"
    /\ LET n == ScaleUpTarget(deployment) IN
       \/ /\ ~NeedsScale(newRS, n)
          /\ pc' = AfterScaleUp(FALSE)
          /\ UNCHANGED <<store, calls>>
       \/ /\ NeedsScale(newRS, n)
          /\ Writable(store, modified, newRS)
          /\ store' = ScaledStore(store, newRS, n)
          /\ calls' = Append(calls, Call("scaleNew", newRS.id, n, ""))
          /\ pc' = AfterScaleUp(TRUE)
    /\ UNCHANGED <<deployment, router, routeCall, twin, modified, status, newRS, oldRSs,
                   allRSs, active, idx,
                   scaled, result, progress, prev>>

\* lines 55-57: the scale of the new replica set failed
ScaleUpNewFail ==
    /\ pc = "scaleUp"
    /\ NeedsScale(newRS, ScaleUpTarget(deployment))
    /\ \E k \in ErrKinds :
          AbortOnError(Append(calls,
              Call("scaleNewFail", newRS.id, ScaleUpTarget(deployment), k)))
    /\ UNCHANGED <<store, deployment, router, routeCall, twin, status>>

\* ------------------------------------------------- cleanup
\* line 63 with allRSs for oldRSs
CleanupArgAll(old, new) == Append(old, new)

\* what rolloutRecreate hands to cleanupDeployment (line 63)
CleanupArg(old, new) == old

\* the k oldest of rss (rss is newest first), oldest first
RECURSIVE Oldest(_, _)
Oldest(rss, k) ==
    IF k <= 0 \/ rss = << >> THEN << >>
    ELSE <<rss[Len(rss)]>> \o Oldest(SubSeq(rss, 1, Len(rss) - 1), k - 1)

\* cleanupDeployment: the replica sets it deletes, oldest first
Deletable(rss, dep) ==
    IF dep.limit = NoLimit THEN << >>
    ELSE SelectSeq(Oldest(rss, Len(rss) - dep.limit),
                   LAMBDA r : r.id # 0 /\ r.desired = 0 /\ r.observed = 0)

RECURSIVE DeleteLog(_, _)
DeleteLog(del, j) ==
    IF j = 0 THEN << >>
    ELSE Append(DeleteLog(del, j - 1), Call("delete", del[j].id, 0, ""))

\* the store after the first j of del are deleted
Deleted(st, del, j) ==
    [id \in RSIds |-> IF \E k \in 1..j : del[k].id = id THEN NoRS ELSE st[id]]

\* line 66 left out: the pass is over once cleanup is done
AfterCleanupNoSync == "idle"

\* lines 63-66: after cleanup the pass syncs the status
AfterCleanup == "status"

\* line 63: cleanupDeployment
CleanupOk ==
    /\ pc = "cleanup"
    /\ LET del == Deletable(CleanupArg(oldRSs, newRS), deployment) IN
          /\ store' = Deleted(store, del, Len(del))
          /\ calls' = Append(calls, Call("cleanup", 0, 0, "")) \o DeleteLog(del, Len(del))
    /\ pc' = AfterCleanup
    /\ UNCHANGED <<deployment, router, routeCall, twin, modified, status, newRS, oldRSs,
                   allRSs, active, idx,
                   scaled, result, progress, prev>>

\* line 63: a delete of cleanupDeployment failed; rolloutRecreate drops the error
CleanupFail ==
    /\ pc = "cleanup"
    /\ LET del == Deletable(CleanupArg(oldRSs, newRS), deployment) IN
       \E j \in 0..(Len(del) - 1), k \in ErrKinds :
          /\ store' = Deleted(store, del, j)
          /\ calls' = Append(calls, Call("cleanup", 0, 0, "")) \o DeleteLog(del, j)
                      \o <<Call("deleteFail", del[j + 1].id, 0, k)>>
    /\ pc' = AfterCleanup
    /\ UNCHANGED <<deployment, router, routeCall, twin, modified, status, newRS, oldRSs,
                   allRSs, active, idx,
                   scaled, result, progress, prev>>

\* lines 40, 60 and 66: compute the status and persist it
StatusWriteOk ==
    /\ pc = "status"
    /\ status' = calculateStatus(allRSs, newRS)
    /\ Return("ok", Append(calls, Call("status", 0, 0, "")))
    /\ UNCHANGED <<store, deployment, router, routeCall, twin>>

\* lines 40, 60 and 66: the status could not be persisted
StatusWriteFail ==
    /\ pc = "status"
    /\ \E k \in ErrKinds : AbortOnError(Append(calls, Call("statusFail", 0, 0, k)))
    /\ UNCHANGED <<store, deployment, router, routeCall, twin, status>>

\* ------------------------------------------------- environment
\* the replica set controller starts or stops one pod of replica set id
ReplicaSetController(id) ==
    /\ store[id].exists
    /\ store[id].observed # store[id].desired
    /\ store' = [store EXCEPT ![id].observed =
                    IF @ < store[id].desired THEN @ + 1 ELSE @ - 1]
    /\ prev' = NoPrev
    /\ UNCHANGED <<deployment, router, routeCall, twin, modified, status, pc, newRS,
                   oldRSs, allRSs, active, idx,
                   scaled, result, calls, progress>>

\* the replica sets the running pass holds a listed copy of
Listed == IF pc = "idle" THEN {} ELSE {id \in RSIds : store[id].exists}

\* the writes of others are followed while a pass is running, one write
\* per pass; what they did between two passes is part of the state the next
\* pass starts from

\* another controller or a user sets the desired count of replica set id to n
ExternalScale(id, n) ==
    /\ id \in Listed
    /\ modified = {}
    /\ store[id].desired # n
    /\ store' = [store EXCEPT ![id].desired = n]
    /\ modified' = {id}
    /\ prev' = NoPrev
    /\ UNCHANGED <<deployment, router, routeCall, twin, status, pc, newRS, oldRSs, allRSs,
                   active, idx, scaled, result, calls, progress>>

\* a user deletes the old replica set id
ExternalDelete(id) ==
    /\ id \in Listed
    /\ modified = {}
    /\ IsOld(store, deployment, id)
    /\ store' = [store EXCEPT ![id] = NoRS]
    /\ modified' = {id}
    /\ prev' = NoPrev
    /\ UNCHANGED <<deployment, router, routeCall, twin, status, pc, newRS, oldRSs, allRSs,
                   active, idx, scaled, result, calls, progress>>

\* the template hashes a Deployment can have: the ones of the replica sets of
\* an initial state (a change to one of them is a rollback) and NewTemplate
Templates == 1..MaxRS

\* The changed Deployment has had no pass yet: the result and the calls of
\* the last pass are those of the Deployment as it was, and are dropped.

\* between two passes the user changes the pod template of the Deployment;
\* the replica set that was the new one is an old one from now on
TemplateChange(t) ==
    /\ pc = "idle"
    /\ t # deployment.tmpl
    /\ deployment' = [deployment EXCEPT !.tmpl = t]
    /\ prev' = NoPrev
    /\ result' = "none"
    /\ calls' = << >>
    /\ UNCHANGED <<store, router, routeCall, twin, status, pc, newRS, oldRSs, allRSs,
                   active, idx, scaled, progress, modified>>

\* between two passes the user changes the desired count of the Deployment
ReplicasChange(n) ==
    /\ pc = "idle"
    /\ n # deployment.replicas
    /\ deployment' = [deployment EXCEPT !.replicas = n]
    /\ prev' = NoPrev
    /\ result' = "none"
    /\ calls' = << >>
    /\ UNCHANGED <<store, router, routeCall, twin, status, pc, newRS, oldRSs, allRSs,
                   active, idx, scaled, progress, modified>>

\* ------------------------------------------------- OpenStack routes
\* (the Routes implementation of the OpenStack cloud provider)
\* The cloud is reachable: a call of its API fails only when what it names
\* does not exist.

\* the instances of the cloud: one with an address, one without any
Servers == {[id |-> "s1", addrs |-> <<"a1">>], [id |-> "s2", addrs |-> << >>]}
\* the next hops a router route can have; no instance has address "a9"
NextHops == {"a1", "a9"}
CIDRs == {"10.164.1.0/24", "10.164.2.0/24"}
\* route.TargetInstance.ID, as a sequence of pieces of the string
ProviderIDs ==
    {<< >>, <<"s1">>, <<"openstack:", "/", "/", "/", "s1">>,
     <<"openstack:", "/", "/", "/", "s2">>, <<"openstack:", "/", "/", "/", "s9">>}
\* the cloudprovider.Route arguments
Routes == [id : ProviderIDs, cidr : CIDRs]

\* strings.LastIndex(providerID, "/"), counted from 1; 0 when there is none
RECURSIVE LastIndex(_, _)
LastIndex(str, n) ==
    IF n = 0 THEN 0 ELSE IF str[n] = "/" THEN n ELSE LastIndex(str, n - 1)

\* getInstanceIDFromProviderID: what follows the last "/"
getInstanceIDFromProviderID(providerID) ==
    IF LastIndex(providerID, Len(providerID)) >= 1
    THEN SubSeq(providerID, LastIndex(providerID, Len(providerID)) + 1, Len(providerID))
    ELSE providerID

\* servers.Get: the instances with this ID
ServersByID(id) == {sv \in Servers : <<sv.id>> = id}
\* getServerByAddress: the instances with this address
ServersByAddress(a) == {sv \in Servers : \E k \in 1..Len(sv.addrs) : sv.addrs[k] = a}

\* the position of the first route of rs with this CIDR; 0 - 1 when there is none
RECURSIVE IndexOf(_, _, _)
IndexOf(rs, cidr, i) ==
    IF i > Len(rs) THEN 0 - 1
    ELSE IF rs[i].DestinationCIDR = cidr THEN i - 1
    ELSE IndexOf(rs, cidr, i + 1)

HasCIDR(rs, cidr) == \E k \in 1..Len(rs) : rs[k].DestinationCIDR = cidr

\* the call op(route) ended with res; trip counts the calls of a round trip
\* create, list, delete made so far
Called(op, route, res, list, trip, start) ==
    routeCall' = [op |-> op, route |-> route, res |-> res, list |-> list,
                  trip |-> trip, start |-> start]

PassVars == <<store, deployment, status, pc, newRS, oldRSs, allRSs, active, idx,
              scaled, result, calls, progress, prev, modified, twin>>

\* CreateRoute (part_000 lines 76-115)
CreateRoute(route) ==
    /\ Len(router) <= MaxRoutes
    /\ LET trip == IF route.id # << >> /\ ~HasCIDR(router, route.cidr) THEN 1 ELSE 0
           found == ServersByID(getInstanceIDFromProviderID(route.id))
           Done(res) == Called("create", route, res, << >>, trip, router)
       IN IF route.id = << >> THEN Done("err") /\ UNCHANGED router
          ELSE IF found = {} THEN Done("err") /\ UNCHANGED router
          ELSE LET server == CHOOSE sv \in found : TRUE IN
               IF Len(server.addrs) = 0 THEN Done("panic") /\ UNCHANGED router
               ELSE /\ router' = Append(router, [DestinationCIDR |-> route.cidr,
                                                  NextHop |-> server.addrs[1]])
                    /\ Done("ok")
    /\ UNCHANGED PassVars

\* the cloudprovider.Route of a router route
ListedRoute(r) == [Name |-> r.DestinationCIDR, DestinationCIDR |-> r.DestinationCIDR]

\* ListRoutes (part_000 lines 43-71)
ListRoutes ==
    /\ LET trip == IF routeCall.trip = 1 THEN 2 ELSE 0 IN
       IF \E k \in 1..Len(router) : ServersByAddress(router[k].NextHop) = {}
       THEN Called("list", routeCall.route, "err", << >>, trip, routeCall.start)
       ELSE Called("list", routeCall.route, "ok",
                   [k \in 1..Len(router) |-> ListedRoute(router[k])],
                   trip, routeCall.start)
    /\ UNCHANGED router
    /\ UNCHANGED PassVars

\* DeleteRoute (part_000 lines 119-144)
DeleteRoute(route) ==
    /\ LET index == IndexOf(router, route.cidr, 1)
           trip == IF routeCall.trip = 2 /\ routeCall.route = route THEN 3 ELSE 0
       IN IF index < 0
          THEN /\ Called("delete", route, "panic", << >>, trip, routeCall.start)
               /\ UNCHANGED router
          ELSE /\ router' = SubSeq(router, 1, index) \o SubSeq(router, index + 2, Len(router))
               /\ Called("delete", route, "ok", << >>, trip, routeCall.start)
    /\ UNCHANGED PassVars

\* ------------------------------------------------- specifications
Counts == 0..MaxReplicas
\* a limit of MaxOld or more keeps every old replica set, as no limit does
Limits == {NoLimit} \cup 0..(MaxOld - 1)

\* the old replica set named id, of an earlier template
OldRS(id, d, o) == [exists |-> TRUE, tmpl |-> id, desired |-> d, observed |-> o]

\* stores with k old replica sets (named 1..k) and, when n is TRUE, the new one
Stores(k, n, counts, newDesired) ==
    UNION {
      {[id \in RSIds |->
          IF id <= k THEN OldRS(id, d[id], o[id])
          ELSE IF n /\ id = k + 1
               THEN [exists |-> TRUE, tmpl |-> NewTemplate, desired |-> nd, observed |-> no]
               ELSE NoRS] :
          d \in [1..k -> counts], o \in [1..k -> counts],
          no \in {c \in counts : c <= nd}} :
      nd \in newDesired}

\* no pass is running and none has run
PassIdle ==
    /\ pc = "idle"
    /\ newRS = NilRS
    /\ oldRSs = << >>
    /\ allRSs = << >>
    /\ active = << >>
    /\ idx = 1
    /\ scaled = FALSE
    /\ result = "none"
    /\ calls = << >>
    /\ prev = NoPrev
    /\ modified = {}

PassInit ==
    /\ status = NoStatus
    /\ twin = NoTwin
    /\ PassIdle

\* no call of the Routes interface is made
RoutesIdle ==
    /\ router = << >>
    /\ routeCall = NoRouteCall

\* the new replica set is absent or not scaled up yet
Init ==
    /\ \E k \in 0..MaxOld, n \in BOOLEAN : store \in Stores(k, n, Counts, {0})
    /\ deployment \in [tmpl : {NewTemplate}, replicas : Counts, limit : Limits]
    /\ progress = NotCounted
    /\ PassInit
    /\ RoutesIdle

PassOk ==
    \/ BeginPassOk
    \/ ScaleDownOldOk
    \/ ScaleDownDone
    \/ EnsureNewOk
    \/ ScaleUpNewOk
    \/ CleanupOk
    \/ StatusWriteOk

PassFail ==
    \/ BeginPassFail
    \/ ScaleDownOldFail
    \/ EnsureNewFail
    \/ ScaleUpNewFail
    \/ CleanupFail
    \/ StatusWriteFail

Environment == \E id \in RSIds : ReplicaSetController(id)

Next == PassOk \/ PassFail \/ Environment

Spec == Init /\ [][Next]_vars

TypeOK ==
    /\ pc \in {"idle", "scaleDown", "ensureNew", "scaleUp", "cleanup", "status"}
    /\ result \in {"none", "ok", "err"}
    /\ \A id \in RSIds : store[id].desired >= 0 /\ store[id].observed >= 0

\* the rollout of one old replica set at ScenarioReplicas replicas, no errors
InitScenario ==
    /\ store = [id \in RSIds |->
                  IF id = 1 THEN OldRS(1, ScenarioReplicas, ScenarioReplicas) ELSE NoRS]
    /\ deployment \in [tmpl : {NewTemplate}, replicas : {ScenarioReplicas}, limit : Limits]
    /\ progress = 0
    /\ PassInit
    /\ RoutesIdle

NextOk == PassOk \/ Environment

SpecScenario == InitScenario /\ [][NextOk]_vars

\* the replica set controller has caught up with every desired count
Settled(st) == \A id \in RSIds : st[id].observed = st[id].desired

\* any intermediate state: every replica set at any desired count
InitAny ==
    /\ \E k \in 0..MaxOld, n \in BOOLEAN :
          store \in {st \in Stores(k, n, Counts, Counts) : Settled(st)}
    /\ deployment \in [tmpl : {NewTemplate}, replicas : Counts, limit : {NoLimit, 0}]
    /\ progress = NotCounted
    /\ PassInit
    /\ RoutesIdle

\* the dispatcher keeps invoking rolloutRecreate
SpecLive == InitAny /\ [][Next]_vars /\ WF_vars(PassOk)

\* concurrent writers: the passes next to users who scale and delete replica sets
InitWriters ==
    /\ \E k \in 1..MaxOld, n \in BOOLEAN :
          store \in {st \in Stores(k, n, Counts, {0}) : Settled(st)}
    /\ deployment = [tmpl |-> NewTemplate, replicas |-> MaxReplicas, limit |-> 0]
    /\ progress = NotCounted
    /\ PassInit
    /\ RoutesIdle

PassGone == ScaleDownOldNotFound

Writers ==
    \/ \E id \in RSIds, n \in Counts : ExternalScale(id, n)
    \/ \E id \in RSIds : ExternalDelete(id)

NextWriters == PassOk \/ PassFail \/ PassGone \/ Writers

SpecWriters == InitWriters /\ [][NextWriters]_vars

\* the DeploymentStatus values the store can hold when a pass starts: none
\* written yet, nothing running, everything running and updated
Statuses ==
    {NoStatus, [replicas |-> 0, updatedReplicas |-> 0],
     [replicas |-> MaxReplicas, updatedReplicas |-> MaxReplicas]}

\* two runs of rolloutRecreate from the same Deployment and replica sets,
\* with different stored statuses: the first one
InitTwin ==
    /\ \E k \in 0..MaxOld, n \in BOOLEAN :
          store \in {st \in Stores(k, n, Counts, Counts) : Settled(st)}
    /\ deployment \in [tmpl : {NewTemplate}, replicas : Counts, limit : {NoLimit, 0}]
    /\ status \in Statuses
    /\ twin = [NoTwin EXCEPT !.phase = 1, !.start = store, !.status = status]
    /\ progress = NotCounted
    /\ PassIdle
    /\ RoutesIdle

\* the first run is over: what it did is kept, and the second run starts from
\* the replica sets the first one started from, with another stored status
Rerun ==
    /\ twin.phase = 1
    /\ pc = "idle"
    /\ result # "none"
    /\ \E s \in Statuses \ {twin.status} :
          /\ status' = s
          /\ twin' = [twin EXCEPT !.phase = 2, !.rerun = s, !.calls = calls,
                                  !.store = store, !.result = result]
    /\ store' = twin.start
    /\ result' = "none"
    /\ calls' = << >>
    /\ prev' = NoPrev
    /\ UNCHANGED <<deployment, router, routeCall, pc, newRS, oldRSs, allRSs, active,
                   idx, scaled, progress, modified>>

\* a run is one pass: none begins once one has returned
RunOpen == result = "none"

NextTwin ==
    \/ RunOpen /\ BeginPassOk
    \/ RunOpen /\ BeginPassFail
    \/ ScaleDownOldOk
    \/ ScaleDownOldFail
    \/ ScaleDownDone
    \/ EnsureNewOk
    \/ EnsureNewFail
    \/ ScaleUpNewOk
    \/ ScaleUpNewFail
    \/ CleanupOk
    \/ CleanupFail
    \/ StatusWriteOk
    \/ StatusWriteFail
    \/ Rerun

SpecTwin == InitTwin /\ [][NextTwin]_vars

\* the replica sets of st that have desired replicas > 0
Live(st) == {id \in RSIds : st[id].exists /\ st[id].desired > 0}

\* the Deployment changes between the passes; at most one replica set has
\* desired replicas > 0 to begin with
InitChanges ==
    /\ \E k \in 0..MaxOld, n \in BOOLEAN :
          store \in {st \in Stores(k, n, Counts, Counts) :
                        Settled(st) /\ Cardinality(Live(st)) <= 1}
    /\ deployment \in [tmpl : {NewTemplate}, replicas : Counts, limit : {NoLimit, 0}]
    /\ progress = NotCounted
    /\ PassInit
    /\ RoutesIdle

Changes ==
    \/ \E t \in Templates : TemplateChange(t)
    \/ \E n \in Counts : ReplicasChange(n)

NextChanges == PassOk \/ PassFail \/ Changes

SpecChanges == InitChanges /\ [][NextChanges]_vars

\* the routes a router can hold: up to n of them
RECURSIVE RouteLists(_)
RouteLists(n) ==
    IF n = 0 THEN {<< >>}
    ELSE RouteLists(n - 1) \cup
         {Append(rs, [DestinationCIDR |-> c, NextHop |-> h]) :
              rs \in {l \in RouteLists(n - 1) : Len(l) = n - 1}, c \in CIDRs, h \in NextHops}

\* calls of the Routes interface; no Deployment is reconciled
InitRoutes ==
    /\ router \in RouteLists(MaxRoutes)
    /\ routeCall = NoRouteCall
    /\ store = [id \in RSIds |-> NoRS]
    /\ deployment = [tmpl |-> NewTemplate, replicas |-> 0, limit |-> NoLimit]
    /\ progress = NotCounted
    /\ PassInit

NextRoutes ==
    \/ \E route \in Routes : CreateRoute(route)
    \/ ListRoutes
    \/ \E route \in Routes : DeleteRoute(route)

SpecRoutes == InitRoutes /\ [][NextRoutes]_vars

\* ------------------------------------------------- properties
BetweenPasses == pc = "idle"
PassOver == pc = "idle" /\ result # "none"

OldDesired(st, dep) == {id \in RSIds : IsOld(st, dep, id) /\ st[id].desired > 0}
OldRunning(st, dep) == {id \in RSIds : IsOld(st, dep, id) /\ st[id].observed > 0}
NewDesired(st, dep) == {id \in RSIds : IsNew(st, dep, id) /\ st[id].desired > 0}
NewRunning(st, dep) == {id \in RSIds : IsNew(st, dep, id) /\ st[id].observed > 0}

IsScaleUpCall(c) == c.op \in {"scaleNew", "scaleNewFail"}
IsScaleCall(c) == c.op \in {"scaleOld", "scaleOldFail", "scaleNew", "scaleNewFail"}

\* C1 (no-overlap): between two passes the stored state never has an old
\* replica set with desired replicas > 0 together with the new replica set
\* with desired replicas > 0.
C1_NoOverlap ==
    BetweenPasses => (OldDesired(store, deployment) = {} \/ NewDesired(store, deployment) = {})

\* a pass scaled the new replica set up next to an old one that had been scaled down
C1_Witness ==
    /\ PassOver
    /\ Has(calls, IsScaleNew)
    /\ NewDesired(store, deployment) # {}
    /\ \E id \in RSIds : IsOld(store, deployment, id)

\* C2 as stated (barrier): a pass that scaled at least one old replica set
\* down creates nothing, scales nothing up, runs no cleanup, writes status
\* and returns the result of that write.
C2_BarrierAsStated ==
    Has(calls, IsScaleOld) =>
        /\ ~Has(calls, IsCreate)
        /\ ~Has(calls, IsScaleUpCall)
        /\ ~Has(calls, IsCleanup) /\ ~Has(calls, IsDelete)
        /\ PassOver => /\ IsStatus(Last(calls))
                       /\ result = "ok" <=> Last(calls).op = "status"

\* C2 (barrier), amended: a pass that scaled at least one old replica set
\* down creates nothing, scales nothing up and runs no cleanup; when its
\* scale-down step returned without error, the pass writes status and returns
\* the result of that write.
C2_Barrier ==
    Has(calls, IsScaleOld) =>
        /\ ~Has(calls, IsCreate)
        /\ ~Has(calls, IsScaleUpCall)
        /\ ~Has(calls, IsCleanup) /\ ~Has(calls, IsDelete)
        /\ (PassOver /\ ~Has(calls, LAMBDA c : c.op = "scaleOldFail")) =>
                /\ IsStatus(Last(calls))
                /\ result = "ok" <=> Last(calls).op = "status"

\* a pass scaled an old replica set down, wrote status and returned
C2_Witness ==
    /\ PassOver
    /\ result = "ok"
    /\ Has(calls, IsScaleOld)
    /\ Last(calls).op = "status"

\* a scale of the new replica set to a count above zero was issued in this pass
ScaleUpIssued == Has(calls, LAMBDA c : IsScaleUpCall(c) /\ c.n > 0)

\* C3 (ordering): when a pass issues a scale of the new replica set to a
\* count > 0, every old replica set of the pass's snapshot has desired
\* replicas 0, in the snapshot and in the store.
C3_Ordering ==
    ScaleUpIssued =>
        /\ \A k \in 1..Len(oldRSs) : oldRSs[k].desired = 0
        /\ OldDesired(store, deployment) = {}

\* a scale-up was issued in a pass that had old replica sets in its snapshot
C3_Witness ==
    /\ ScaleUpIssued
    /\ Len(oldRSs) > 0
    /\ pc = "status"

\* C4 (old and new never run together): no old replica set has observed
\* replicas > 0 while the new replica set has desired or observed replicas > 0.
C4_NeverConcurrent ==
    OldRunning(store, deployment) # {} =>
        (NewDesired(store, deployment) = {} /\ NewRunning(store, deployment) = {})

\* every old replica set is at zero and the new one at the Deployment's count
Converged ==
    /\ OldDesired(store, deployment) = {}
    /\ \E id \in RSIds : IsNew(store, deployment, id) /\
                         store[id].desired = deployment.replicas

\* from some point on no store call fails
ErrorsStop == <>[][~PassFail]_vars

\* C5 (convergence): from any intermediate state, when rolloutRecreate keeps
\* being invoked and store errors eventually stop, eventually every old
\* replica set has desired replicas 0 and the new replica set exists with the
\* Deployment's desired count, and this stays so.
C5_Convergence == ErrorsStop => <>[]Converged

\* converged from a state with an old replica set and the new one both scaled up
C5_Witness ==
    /\ Converged
    /\ PassOver
    /\ deployment.replicas > 0
    /\ \E id \in RSIds : IsOld(store, deployment, id)
    /\ Has(calls, IsCleanup)

\* the state the scenario is to reach
ScenarioTarget ==
    /\ OldDesired(store, deployment) = {}
    /\ \E id \in RSIds : IsNew(store, deployment, id) /\
                         store[id].desired = ScenarioReplicas

\* C6 (monotonic convergence): from one old replica set with desired =
\* observed = ScenarioReplicas and no new one, without errors, the passes
\* reach {old desired 0, new desired ScenarioReplicas} in exactly two
\* progressing passes: the first only scales the old set down, the second
\* creates the new set and scales it up, and no pass does both.
C6_TwoProgressingPasses ==
    /\ progress <= 2
    /\ ~(Has(calls, IsScaleOld) /\ Has(calls, IsScaleNew))
    /\ BetweenPasses => (ScenarioTarget <=> progress = 2)
    /\ (PassOver /\ Has(calls, IsScale) /\ progress = 1) =>
            calls = <<Call("scaleOld", 1, 0, ""), Call("status", 0, 0, "")>>
    /\ (PassOver /\ Has(calls, IsScale) /\ progress = 2) =>
            calls = <<Call("create", 2, 0, ""),
                      Call("scaleNew", 2, ScenarioReplicas, ""),
                      Call("status", 0, 0, "")>>

\* the second progressing pass is over and the old pods are still running
C6_Witness ==
    /\ PassOver
    /\ progress = 2
    /\ Has(calls, IsScaleNew)
    /\ ScenarioTarget
    /\ store[1].exists /\ store[1].desired = 0

\* the computed status of the running pass is the stored one
SameStatus == pc = "status" => calculateStatus(allRSs, newRS) = status

IsConflictOnOld(c) == c.op = "scaleOldFail" /\ c.err = "Conflict"

\* C8 (conflict resilience): a pass in which the scale-down of an old replica
\* set fails with a conflict returns that error, and creates nothing, scales
\* nothing up, runs no cleanup and writes no status.
C8_ConflictResilience ==
    (pc # "scaleDown" /\ Has(calls, IsConflictOnOld)) =>
        /\ PassOver
        /\ result = "err"
        /\ IsConflictOnOld(Last(calls))
        /\ ~Has(calls, LAMBDA c : c.op \in {"create", "createFail"})
        /\ ~Has(calls, IsScaleUpCall)
        /\ ~Has(calls, IsCleanup)
        /\ ~Has(calls, LAMBDA c : c.op \in {"delete", "deleteFail"})
        /\ ~Has(calls, IsStatus)

\* a pass hit a conflict on the second old replica set it scaled down
C8_Witness ==
    /\ PassOver
    /\ Has(calls, IsConflictOnOld)
    /\ Has(calls, IsScaleOld)
    /\ status = NoStatus

\* the running pass began with every old replica set at 0/0 and the new one
\* at the Deployment's count, desired and observed
AtRest ==
    /\ pc # "idle"
    /\ newRS.id # 0
    /\ newRS.desired = deployment.replicas
    /\ newRS.observed = deployment.replicas
    /\ \A k \in 1..Len(oldRSs) : oldRSs[k].desired = 0 /\ oldRSs[k].observed = 0

\* C9 (zero-desired no-op): a pass over old replica sets at 0/0 and the new
\* one at N/N changes no desired count, issues no scale, invokes cleanup and
\* then writes the final status.
C9_NoOpAtRest ==
    [][AtRest =>
        /\ \A id \in RSIds : store'[id].exists => store'[id].desired = store[id].desired
        /\ ~Has(calls', IsScaleCall)
        /\ pc' = "idle" => /\ Has(calls', IsCleanup)
                           /\ IsStatus(Last(calls'))
                           /\ \A k \in 1..Len(calls') :
                                 IsStatus(calls'[k]) => k = Len(calls')]_vars

\* such a pass ran its cleanup over an old replica set and is about to write status
C9_Witness ==
    /\ AtRest
    /\ pc = "status"
    /\ Has(calls, IsCleanup)
    /\ deployment.replicas > 0
    /\ Len(oldRSs) > 0

\* C10 (cleanup safety): no step deletes a replica set that has desired or
\* observed replicas > 0, or the new replica set, whatever the limit.
C10_CleanupSafety ==
    [][\A id \in RSIds :
          (store[id].exists /\ ~store'[id].exists) =>
              /\ store[id].desired = 0
              /\ store[id].observed = 0
              /\ ~IsNew(store, deployment, id)]_vars

\* a cleanup deleted an old replica set and kept one beyond the limit whose
\* pods are still terminating
C10_Witness ==
    /\ pc = "status"
    /\ Has(calls, IsDelete)
    /\ deployment.limit = 0
    /\ \E id \in RSIds : /\ IsOld(store, deployment, id)
                         /\ store[id].desired = 0
                         /\ store[id].observed > 0

\* the names of the replica sets in a listing
SnapIds(rss) == {rss[k].id : k \in 1..Len(rss)}

\* C11 (partition): at most one stored replica set is classified new (its
\* template is the Deployment's), every other one is classified old and none
\* is both; the listing of a running pass is such a partition too: newRS is
\* the new one (nil if there is none), oldRSs holds every old one once and
\* never newRS, also after the pass created the new replica set and re-listed.
C11_Partition ==
    /\ Cardinality({id \in RSIds : IsNew(store, deployment, id)}) <= 1
    /\ \A id \in RSIds :
          store[id].exists => (IsNew(store, deployment, id) # IsOld(store, deployment, id))
    /\ pc # "idle" =>
          /\ newRS.id = FindNew(store, deployment).id
          /\ newRS.id \notin SnapIds(oldRSs)
          /\ Cardinality(SnapIds(oldRSs)) = Len(oldRSs)
          /\ {id \in RSIds : IsOld(store, deployment, id)} \subseteq SnapIds(oldRSs)
          /\ pc \in {"scaleDown", "ensureNew", "scaleUp"} =>
                SnapIds(oldRSs) = {id \in RSIds : IsOld(store, deployment, id)}

\* a pass created the new replica set next to two old ones and listed again
C11_Witness ==
    /\ pc = "scaleUp"
    /\ Has(calls, IsCreate)
    /\ newRS.id # 0
    /\ Len(oldRSs) = MaxOld

\* the running pass is about to write the desired count of replica set id
ScaleWritePending(id) ==
    \/ /\ pc = "scaleDown" /\ idx <= Len(active)
       /\ active[idx].id = id /\ ~ScalingNotRequired(active[idx])
    \/ /\ pc = "scaleUp" /\ newRS.id = id
       /\ NeedsScale(newRS, deployment.replicas)

\* C12 (no lost update): once another writer has modified a replica set the
\* running pass listed, no step of the pass changes its stored desired count;
\* the pass's scale write to it fails (with a conflict, NotFound if it was
\* deleted, or a store error), leaves the store as it is and ends the pass
\* with that error; the next pass starts from a fresh listing of the store.
C12_NoLostUpdate ==
    [][/\ \A id \in modified :
             /\ (store[id].exists /\ store'[id].exists) =>
                    store'[id].desired = store[id].desired
             /\ ScaleWritePending(id) =>
                    /\ store' = store
                    /\ pc' = "idle" /\ result' = "err"
                    /\ Last(calls').op \in {"scaleOldFail", "scaleNewFail"}
                    /\ Last(calls').id = id
                    /\ Last(calls').err \in ErrKinds \cup {"NotFound"}
                    /\ (Last(calls').err = "NotFound") => ~store[id].exists
       /\ (pc = "idle" /\ pc' = "scaleDown") =>
             /\ modified' = {}
             /\ \A k \in 1..Len(allRSs') :
                   allRSs'[k].id # 0 => allRSs'[k] = Obj(store, allRSs'[k].id)]_vars

\* a user scaled an old replica set to zero after the pass listed it; the
\* pass's own write to it hit the conflict and the pass ended there
C12_Witness ==
    /\ PassOver
    /\ result = "err"
    /\ IsConflictOnOld(Last(calls))
    /\ store[Last(calls).id].exists
    /\ store[Last(calls).id].desired = 0

\* C13 (route round trip): for a route with a non-empty target instance ID
\* and a CIDR not yet on the router, CreateRoute succeeds and adds exactly one
\* router route with that CIDR, the ListRoutes after it succeeds, and the
\* DeleteRoute of the same route after that succeeds and leaves the router's
\* routes as they were before CreateRoute.
C13_RoundTrip ==
    /\ routeCall.trip >= 1 => routeCall.res = "ok"
    /\ routeCall.trip = 1 =>
          /\ Len(router) = Len(routeCall.start) + 1
          /\ SubSeq(router, 1, Len(routeCall.start)) = routeCall.start
          /\ router[Len(router)].DestinationCIDR = routeCall.route.cidr
    /\ routeCall.trip = 2 => Len(routeCall.list) = Len(router)
    /\ routeCall.trip = 3 => router = routeCall.start

\* this step is the failing scale of an old replica set
ScaleDownFails ==
    /\ pc = "scaleDown"
    /\ Len(calls') = Len(calls) + 1
    /\ Last(calls').op = "scaleOldFail"

\* C14 (fail-fast scale-down): when the scale of an old replica set fails,
\* the step writes nothing, the old replica sets scaled earlier in the pass
\* stay at desired 0, the ones after the failing one keep their desired
\* count, and the pass ends there, returning that (its first) error with
\* scaled false.
C14_FailFast ==
    [][ScaleDownFails =>
          /\ store' = store
          /\ \A k \in 1..Len(calls) :
                IsScaleOld(calls[k]) => store'[calls[k].id].desired = 0
          /\ \A k \in (idx + 1)..Len(active) :
                store'[active[k].id].desired = active[k].desired
          /\ Last(calls').id = active[idx].id
          /\ ~Has(calls, IsFail)
          /\ pc' = "idle"
          /\ result' = "err"
          /\ scaled' = FALSE]_vars

\* the scale of the first of two old replica sets failed; the second one was
\* not scaled
C14_Witness ==
    /\ PassOver
    /\ result = "err"
    /\ Len(calls) = 1
    /\ Last(calls).op = "scaleOldFail"
    /\ \E id \in RSIds : /\ id < Last(calls).id
                         /\ IsOld(store, deployment, id)
                         /\ store[id].desired > 0

IsNotFoundOnOld(c) == c.op = "scaleOldFail" /\ c.err = "NotFound"

\* C15 (NotFound is skipped): a pass whose scale-down scan meets an old
\* replica set that is gone from the store (NotFound) goes on with the scan
\* and does not end with that error.
C15_NotFoundSkipped ==
    Has(calls, IsNotFoundOnOld) =>
        ~(PassOver /\ result = "err" /\ IsNotFoundOnOld(Last(calls)))

IsDeleteCall(c) == c.op \in {"delete", "deleteFail"}

\* C16 (cleanup gating): a pass runs cleanup, and deletes replica sets, only
\* when it changed no desired count, neither of an old replica set nor of the
\* new one; a pass that scaled the new replica set up goes straight to the
\* status write and ends with it.
C16_CleanupGating ==
    /\ Has(calls, IsCleanup) => ~Has(calls, IsScale)
    /\ Has(calls, IsDeleteCall) => (Has(calls, IsCleanup) /\ ~Has(calls, IsScale))
    /\ Has(calls, IsScaleNew) =>
          /\ pc \in {"status", "idle"}
          /\ pc = "status" => IsScaleNew(Last(calls))
          /\ PassOver => /\ IsStatus(Last(calls))
                          /\ IsScaleNew(calls[Len(calls) - 1])

\* a pass that scaled nothing ran cleanup, deleted an old replica set and
\* wrote the status, with the new replica set scaled up
C16_Witness ==
    /\ PassOver
    /\ result = "ok"
    /\ Has(calls, IsCleanup)
    /\ Has(calls, IsDelete)
    /\ NewDesired(store, deployment) # {}

\* a resolve or a scale of the pass failed
IsStepError(c) == c.op \in {"listFail", "scaleOldFail", "createFail", "scaleNewFail"}

\* C17 (status on every non-failing path): a pass in which no resolve and no
\* scale failed ends with the call of the status synchronizer, which it makes
\* exactly once and after all its scale, create and delete calls; this
\* includes the passes that stop at the scale-down or scale-up barrier.
C17_StatusLast ==
    [][(pc' = "idle" /\ calls' # calls /\ ~Has(calls', IsStepError)) =>
          /\ IsStatus(Last(calls'))
          /\ \A k \in 1..Len(calls') : IsStatus(calls'[k]) => k = Len(calls')]_vars

\* a pass created the new replica set, scaled it up and stopped at the
\* barrier with the status write
C17_Witness ==
    /\ PassOver
    /\ result = "ok"
    /\ Len(calls) = 3
    /\ IsCreate(calls[1])
    /\ IsScaleNew(calls[2])
    /\ calls[3].op = "status"

\* the last pass scaled a replica set and then failed to write the status
ScaledThenStatusFailed ==
    /\ PassOver
    /\ Has(calls, IsScale)
    /\ Last(calls).op = "statusFail"

\* C18 (a failed status write undoes nothing): when the status write fails
\* after a scale-down or scale-up of the same pass, the step leaves the store
\* alone and the pass returns the error, with every desired count the pass
\* wrote still as written; the next pass lists exactly these counts.
C18_NoRollback ==
    [][/\ (pc = "status" /\ Has(calls, IsScale) /\ calls' # calls
            /\ Last(calls').op = "statusFail") =>
             /\ store' = store
             /\ pc' = "idle"
             /\ result' = "err"
             /\ \A k \in 1..Len(calls) :
                   IsScale(calls[k]) => store'[calls[k].id].desired = calls[k].n
       /\ (ScaledThenStatusFailed /\ pc' = "scaleDown") =>
             \A k \in 1..Len(calls) :
                 IsScale(calls[k]) =>
                     \E j \in 1..Len(allRSs') : /\ allRSs'[j].id = calls[k].id
                                                 /\ allRSs'[j].desired = calls[k].n]_vars

\* the status write failed after the scale-up of the new replica set, which
\* is still scaled up
C18_Witness ==
    /\ ScaledThenStatusFailed
    /\ result = "err"
    /\ Has(calls, IsScaleNew)
    /\ NewDesired(store, deployment) # {}

\* this step creates a replica set
Creates == Len(calls') = Len(calls) + 1 /\ IsCreate(Last(calls'))

\* C19 (deferred creation): a pass creates a replica set only when its first
\* resolve found no new replica set and it scaled no old replica set down;
\* it creates one, of the Deployment's template and with desired replicas 0,
\* before its scale-up step; a pass that found a new replica set creates none.
C19_DeferredCreation ==
    [][/\ Creates =>
             /\ pc = "ensureNew" /\ pc' = "scaleUp"
             /\ newRS.id = 0
             /\ FindNew(store, deployment).id = 0
             /\ calls = << >>
             /\ ~store[Last(calls').id].exists
             /\ store'[Last(calls').id] = CreatedRS(deployment)
             /\ store'[Last(calls').id].desired = 0
             /\ \A id \in RSIds \ {Last(calls').id} : store'[id] = store[id]
       /\ (pc # "idle" /\ newRS.id # 0) => ~Creates
       /\ Has(calls, IsCreate) => ~Creates]_vars

\* a pass created the new replica set, still at zero, while the pods of an
\* old one are terminating
C19_Witness ==
    /\ pc = "scaleUp"
    /\ calls = <<Call("create", newRS.id, 0, "")>>
    /\ store[newRS.id].desired = 0
    /\ deployment.replicas > 0
    /\ OldRunning(store, deployment) # {}

\* scaling the stored replica set id to n, and then to n once more
ScaledOnce(id, n) == scaleReplicaSetAndRecordEvent(store, Obj(store, id), n)
ScaledTwice(id, n) ==
    LET first == ScaledOnce(id, n) IN
    scaleReplicaSetAndRecordEvent(first.store, first.rs, n)

DeleteRouteCalled ==
    /\ routeCall'.op = "delete"
    /\ <<router, routeCall>>' # <<router, routeCall>>

\* rs without its i-th route
WithoutRoute(rs, i) ==
    [k \in 1..(Len(rs) - 1) |-> IF k < i THEN rs[k] ELSE rs[k + 1]]

\* C24 (DeleteRoute): DeleteRoute removes exactly the first router route whose
\* destination CIDR is the given route's and keeps the other routes in their
\* order; when no router route has that CIDR it completes without crashing
\* and leaves the router's routes unchanged.
C24_DeleteRoute ==
    [][DeleteRouteCalled =>
          LET cidr == routeCall'.route.cidr IN
          /\ routeCall'.res = "ok"
          /\ IF HasCIDR(router, cidr)
             THEN \E i \in 1..Len(router) :
                     /\ router[i].DestinationCIDR = cidr
                     /\ \A j \in 1..(i - 1) : router[j].DestinationCIDR # cidr
                     /\ router' = WithoutRoute(router, i)
             ELSE router' = router]_vars

\* the Deployment asks for no replicas
ZeroDesired == deployment.replicas = 0

\* the running pass listed every old replica set at desired 0
OldAtZero == pc # "idle" /\ \A k \in 1..Len(oldRSs) : oldRSs[k].desired = 0

\* no replica set's desired count is set above 0 by this step
NoneSetAboveZero ==
    \A id \in RSIds :
        (store'[id].exists /\ store'[id].desired > 0) =>
            (store[id].exists /\ store[id].desired = store'[id].desired)

\* the scale-up step of the pass does nothing and reports nothing scaled
ScaleUpIsNoOp ==
    (pc = "scaleUp" /\ pc' # pc) =>
        /\ store' = store
        /\ calls' = calls
        /\ pc' = "cleanup"

\* the pass scales nothing and, unless a resolve of it fails, runs cleanup
\* and ends with the status write
SteadyPass ==
    /\ ~Has(calls', IsScaleCall)
    /\ (pc' = "idle" /\ ~Has(calls', IsStepError)) =>
          /\ Has(calls', IsCleanup)
          /\ IsStatus(Last(calls'))

\* C21 as stated (zero desired replicas): when the Deployment's desired count
\* is 0, no replica set's desired count is ever set above 0 and the scale-up
\* step of every pass is a no-op; a pass that lists the old replica sets at
\* desired 0 performs no scaling, runs cleanup and writes final status.
C21_ZeroDesiredAsStated ==
    [][ZeroDesired =>
          /\ NoneSetAboveZero
          /\ ScaleUpIsNoOp
          /\ OldAtZero => SteadyPass]_vars

\* C21 (zero desired replicas), amended: when the Deployment's desired count
\* is 0, no replica set's desired count is ever set above 0; when the new
\* replica set is absent or at desired 0, the scale-up step is a no-op, and a
\* pass that lists the old replica sets at desired 0 performs no scaling, runs
\* cleanup and writes final status; a new replica set that still has desired
\* replicas > 0 is scaled to 0 by the scale-up step, and that pass stops at
\* the barrier.
C21_ZeroDesired ==
    [][ZeroDesired =>
          /\ NoneSetAboveZero
          /\ (pc # "idle" /\ newRS.desired = 0) =>
                /\ ScaleUpIsNoOp
                /\ OldAtZero => SteadyPass
          /\ (pc = "scaleUp" /\ pc' # pc /\ newRS.desired > 0) =>
                \/ /\ store' = ScaledStore(store, newRS, 0)
                   /\ Last(calls') = Call("scaleNew", newRS.id, 0, "")
                   /\ pc' = "status"
                \/ /\ store' = store
                   /\ Last(calls').op = "scaleNewFail"
                   /\ pc' = "idle" /\ result' = "err"]_vars

\* with no replicas asked for, a pass found the old replica set scaled down
\* (its pods still terminating), scaled nothing, ran cleanup and is about to
\* write the status
C21_Witness ==
    /\ ZeroDesired
    /\ OldAtZero
    /\ pc = "status"
    /\ Has(calls, IsCleanup)
    /\ ~Has(calls, IsScaleCall)
    /\ newRS.desired = 0
    /\ \E id \in RSIds : /\ IsOld(store, deployment, id)
                         /\ store[id].desired = 0
                         /\ store[id].observed > 0

\* the calls of a pass that failed
Failed(log) == SelectSeq(log, IsFail)

\* both runs are over and the store answered them alike
BothRunsOver ==
    /\ twin.phase = 2
    /\ PassOver
    /\ Failed(calls) = Failed(twin.calls)

\* C22 (status never drives decisions): two runs of rolloutRecreate from the
\* same Deployment spec and the same replica sets, with different stored
\* DeploymentStatus and the same answers of the store, issue the same sequence
\* of scale, create and delete calls, return the same result and leave the
\* same replica sets.
C22_StatusNotRead ==
    /\ twin.phase = 2 => twin.rerun # twin.status
    /\ BothRunsOver =>
          /\ calls = twin.calls
          /\ store = twin.store
          /\ result = twin.result

\* both runs, the second with another stored status, created the new replica
\* set and scaled it up
C22_Witness ==
    /\ BothRunsOver
    /\ twin.rerun # twin.status
    /\ Has(calls, IsCreate)
    /\ Has(calls, IsScaleNew)
    /\ NewDesired(store, deployment) # {}
    /\ Last(calls).op = "status"

\* C23 (single live generation across template changes): from a state in
\* which at most one owned replica set has desired replicas > 0, whatever
\* passes (succeeding or aborting) and changes of the Deployment's template or
\* desired count between passes happen, at most one owned replica set has
\* desired replicas > 0 in every between-pass state.
C23_SingleLiveGeneration ==
    BetweenPasses => Cardinality(Live(store)) <= 1

\* after a change of the template the replica set of the former template is an
\* old one at zero, and a pass has scaled the new one up next to it
C23_Witness ==
    /\ PassOver
    /\ deployment.tmpl # NewTemplate
    /\ Has(calls, IsScaleNew)
    /\ NewDesired(store, deployment) # {}
    /\ \E id \in RSIds : /\ store[id].exists
                         /\ store[id].tmpl = NewTemplate
                         /\ store[id].desired = 0
    /\ Cardinality({id \in RSIds : store[id].exists}) >= 2

====
